---- MODULE Spec2Model ----
(***************************************************************************)
(* Model of cheesyutils/discord_bots/cogs/meta.py: the argument converters *)
(* (_ValidPrefix, _AnyChannel), the custom-prefix capability check, the    *)
(* prefix get/set/reset commands and their error translator, the execute   *)
(* command's output rendering and the sudo command.                        *)
(*                                                                         *)
(* Strings are sequences of one-character strings.  A call's result is a   *)
(* record [kind, value]: kind "ok" carries the returned value, any other   *)
(* kind names the exception the call raises.                               *)
(***************************************************************************)
EXTENDS Integers, Sequences, FiniteSets, TLC

VARIABLES hasTable, prefixes, last, tasks, dbErrors

vars == <<hasTable, prefixes, last, tasks, dbErrors>>

----------------------------------------------------------------------------
(* Bounds and sample inputs *)

NumGuilds == 2
MaxTokenLen == 5
NumTasks == 2

Guilds == 1..NumGuilds
Tasks == 1..NumTasks

\* characters a raw prefix token is made of: a letter and a space, and a
\* newline that may end the token
Chars == {"a", " "}
Whitespace == {" ", "\n"}

RECURSIVE SeqsOfLen(_, _)
SeqsOfLen(S, n) ==
    IF n = 0 THEN {<<>>}
    ELSE {Append(s, c) : s \in SeqsOfLen(S, n - 1), c \in S}

Tokens ==
    UNION {SeqsOfLen(Chars, n) : n \in 0..MaxTokenLen}
        \cup {<<"\n">>, <<"a", "\n">>}

NoValue == <<>>
Ok(v) == [kind |-> "ok", value |-> v]
Raise(e) == [kind |-> e, value |-> NoValue]

----------------------------------------------------------------------------
(* The store: the rows of the prefixes table *)

\* the prefix column's default value, set by the deployment's schema
DefaultPrefix == <<"a">>

Row(g, p) == [server_id |-> g, prefix |-> p]

\* INSERT OR REPLACE INTO prefixes(server_id, prefix) VALUES (?, ?)
InsertOrReplace(rows, g, p) == {r \in rows : r.server_id # g} \cup {Row(g, p)}

\* DELETE FROM prefixes WHERE server_id = ?
Delete(rows, g) == {r \in rows : r.server_id # g}

\* INSERT INTO prefixes(server_id) VALUES (?): server_id is the primary key,
\* the prefix column takes its default
InsertDefault(rows, g) ==
    IF \E r \in rows : r.server_id = g
    THEN [kind |-> "IntegrityError", value |-> rows]
    ELSE Ok(rows \cup {Row(g, DefaultPrefix)})

\* SELECT name FROM sqlite_master WHERE type='table' AND name='prefixes'
TablesNamedPrefixes(tbl) == IF tbl THEN {"prefixes"} ELSE {}

----------------------------------------------------------------------------
(* _ValidPrefix.convert *)

NonWs(s) == \A i \in 1..Len(s) : s[i] \notin Whitespace

\* the regular expression ^\S{1,4}$ under re.match: $ matches at the end of
\* the string and also just before a newline that ends the string
MatchesPattern(s) ==
    \/ Len(s) \in 1..4 /\ NonWs(s)
    \/ /\ Len(s) \in 2..5
       /\ s[Len(s)] = "\n"
       /\ NonWs(SubSeq(s, 1, Len(s) - 1))

\* re.match(pattern, string): args is the sequence of positional arguments
\* after the pattern; the string parameter is required
re_match(args) ==
    IF Len(args) < 1 THEN Raise("TypeError")
    ELSE Ok(MatchesPattern(args[1]))

\* the converter with its pattern test left out: every token is accepted
ValidPrefix_convert_unchecked(argument) == Ok(argument)

\* line 85 calls re.match with the pattern alone
ValidPrefix_convert(argument) ==
    LET m == re_match(<<>>) IN
    IF m.kind # "ok" THEN Raise(m.kind)
    ELSE IF ~m.value THEN [kind |-> "ConversionFailed", value |-> argument]
    ELSE Ok(argument)

\* the framework's argument conversion: a CommandError raised by a converter
\* propagates, any other exception is wrapped in ConversionError
FrameworkConvert(res) ==
    IF res.kind \in {"ok", "ConversionFailed"} THEN res
    ELSE [kind |-> "ConversionError", value |-> res.value]

----------------------------------------------------------------------------
(* _can_use_custom_prefixes and the error translator *)

\* the predicate handed to commands.check
predicate(tbl) == Cardinality(TablesNamedPrefixes(tbl)) # 0

\* commands.check(predicate) only builds the decorator: it raises nothing
\* where _can_use_custom_prefixes is evaluated, so the except clause of lines
\* 146-147 never runs; when the predicate later returns False the framework
\* raises its own CheckFailure
CheckOutcome(tbl) == IF predicate(tbl) THEN "none" ELSE "CheckFailure"

\* Meta._on_prefix_commands_error: the notice sent for an error, if any
on_prefix_commands_error(err) ==
    IF err = "NoCustomPrefixesAllowed" THEN "cannot use custom prefixes"
    ELSE IF err = "ConversionFailed" THEN "not a valid prefix"
    ELSE "none"

----------------------------------------------------------------------------
(* The prefix commands.  Each returns [rows, err, reported, conv]: the rows *)
(* of the table afterwards, the exception it ended in ("none" if none), what *)
(* it showed as the prefix, and the raw outcome of the prefix converter.    *)

Reported(kind, v) == [kind |-> kind, value |-> v]
NothingReported == Reported("none", NoValue)
NotConverted == [kind |-> "none", value |-> NoValue]

\* the checks of the prefix group, run before any subcommand: the permission
\* checks (auth) and the capability check
GroupChecks(tbl, auth) ==
    IF ~auth THEN "MissingPermissions" ELSE CheckOutcome(tbl)

\* line 219 does not await database.execute: the embed's field value is the
\* awaitable itself, and no row is read
get_prefix_command(rows, g) ==
    [rows |-> rows, err |-> "none", reported |-> Reported("coroutine", NoValue),
     conv |-> NotConverted]

\* set with the raw token stored before the conversion is looked at
set_prefix_command_write_first(rows, g, tok) ==
    LET raw == ValidPrefix_convert(tok)
        conv == FrameworkConvert(raw) IN
    [rows |-> InsertOrReplace(rows, g, tok),
     err |-> IF conv.kind = "ok" THEN "none" ELSE conv.kind,
     reported |-> NothingReported, conv |-> raw]

\* the prefix parameter is converted before the body runs
set_prefix_command(rows, g, tok) ==
    LET raw == ValidPrefix_convert(tok)
        conv == FrameworkConvert(raw) IN
    IF conv.kind # "ok"
    THEN [rows |-> rows, err |-> conv.kind, reported |-> NothingReported,
          conv |-> raw]
    ELSE [rows |-> InsertOrReplace(rows, g, conv.value), err |-> "none",
          reported |-> Reported("text", conv.value), conv |-> raw]

reset_prefix_command(rows, g) ==
    LET ins == InsertDefault(Delete(rows, g), g) IN
    [rows |-> ins.value,
     err |-> IF ins.kind = "ok" THEN "none" ELSE ins.kind,
     reported |-> NothingReported, conv |-> NotConverted]

\* a subcommand's own checks: get and set carry _can_use_custom_prefixes,
\* reset (lines 252-255) does not
OwnChecks(op, tbl) == IF op = "reset" THEN "none" ELSE CheckOutcome(tbl)

Body(op, rows, g, tok) ==
    IF op = "get" THEN get_prefix_command(rows, g)
    ELSE IF op = "set" THEN set_prefix_command(rows, g, tok)
    ELSE reset_prefix_command(rows, g)

\* one prefix command through the framework: group checks, own checks,
\* conversion and body, then the command's error handler
InvokePrefix(op, tbl, rows, g, auth, tok) ==
    LET gc == GroupChecks(tbl, auth)
        oc == OwnChecks(op, tbl)
        stopped == IF gc # "none" THEN gc ELSE oc
        res == IF stopped # "none"
               THEN [rows |-> rows, err |-> stopped, reported |-> NothingReported,
                     conv |-> NotConverted]
               ELSE Body(op, rows, g, tok)
    IN [op |-> op, guild |-> g, arg |-> tok, auth |-> auth,
        before |-> rows, after |-> res.rows,
        passedChecks |-> (stopped = "none"),
        err |-> res.err,
        notice |-> on_prefix_commands_error(res.err),
        reported |-> res.reported,
        conv |-> res.conv]

NoCommand == [op |-> "none"]

PrefixGet(g, auth) ==
    LET out == InvokePrefix("get", hasTable, prefixes, g, auth, NoValue) IN
    /\ last' = out
    /\ prefixes' = out.after
    /\ UNCHANGED <<hasTable, tasks, dbErrors>>

PrefixSet(g, auth, tok) ==
    LET out == InvokePrefix("set", hasTable, prefixes, g, auth, tok) IN
    /\ last' = out
    /\ prefixes' = out.after
    /\ UNCHANGED <<hasTable, tasks, dbErrors>>

PrefixReset(g, auth) ==
    LET out == InvokePrefix("reset", hasTable, prefixes, g, auth, NoValue) IN
    /\ last' = out
    /\ prefixes' = out.after
    /\ UNCHANGED <<hasTable, tasks, dbErrors>>

----------------------------------------------------------------------------
(* _AnyChannel.convert *)

\* the words a sudo invocation is made of
WordTokens == {<<"1">>, <<"1", "2">>, <<"7">>, <<"x">>, <<"2">>, <<"y">>}

Digits == {"1", "2", "7"}
DigitValue(c) == IF c = "1" THEN 1 ELSE IF c = "2" THEN 2 ELSE 7

\* int(argument, base=10)
IsInt(s) == Len(s) > 0 /\ \A i \in 1..Len(s) : s[i] \in Digits

RECURSIVE IntOf(_)
IntOf(s) ==
    IF Len(s) = 0 THEN 0
    ELSE 10 * IntOf(SubSeq(s, 1, Len(s) - 1)) + DigitValue(s[Len(s)])

\* bot.get_channel: the global channel cache, by ID; "None" when absent
get_channel(id) ==
    IF id = 1 THEN "general" ELSE IF id = 12 THEN "remote" ELSE "None"

\* the channels of the invoking guild, which direct resolution sees
GuildChannels == {"general"}

\* commands.TextChannelConverter().convert(ctx, argument): resolves an ID or
\* a name within the invoking guild; args are the positional arguments
TextChannelConverter_convert(args) ==
    IF Len(args) < 2 THEN Raise("TypeError")
    ELSE LET argument == args[2]
             byId == IF IsInt(argument) THEN get_channel(IntOf(argument)) ELSE "None"
         IN IF byId \in GuildChannels THEN Ok(byId)
            ELSE IF argument = <<"x">> THEN Ok("general")
            ELSE Raise("BadArgument")

\* line 112 passes the argument alone; only BadArgument is caught (line 113)
AnyChannel_convert(argument) ==
    LET direct == TextChannelConverter_convert(<<argument>>) IN
    IF direct.kind # "BadArgument" THEN direct
    ELSE IF ~IsInt(argument)
         THEN [kind |-> "ConversionFailed", value |-> argument]
    ELSE IF get_channel(IntOf(argument)) # "None"
         THEN [kind |-> "ConversionFailed", value |-> argument]
    ELSE Ok("None")

----------------------------------------------------------------------------
(* Meta.sudo_command *)

Channels == {"general", "remote"}

\* Union[discord.Member, discord.User]: the users the framework resolves
UserOf(tok) == IF tok = <<"2">> THEN "bob" ELSE "None"

Message(author, channel, content) ==
    [author |-> author, channel |-> channel, content |-> content]

\* ctx.prefix + command
PrefixedContent(rest) == <<"<prefix>">> \o rest

\* the framework parses (channel: Optional[_AnyChannel], user, *, command)
\* from the words, then the body runs: a failed conversion of an Optional
\* parameter gives None and leaves the word to the next parameter
sudo_command(ctxChannel, words) ==
    LET raw == AnyChannel_convert(words[1])
        conv == FrameworkConvert(raw)
        given == IF conv.kind = "ok" THEN conv.value ELSE "None"
        pos == IF conv.kind = "ok" THEN 2 ELSE 1
        user == IF pos <= Len(words) THEN UserOf(words[pos]) ELSE "None"
        rest == SubSeq(words, pos + 1, Len(words))
        channel == IF given # "None" THEN given ELSE ctxChannel
        err == IF pos > Len(words) THEN "MissingRequiredArgument"
               ELSE IF user = "None" THEN "BadUnionArgument"
               ELSE IF rest = <<>> THEN "MissingRequiredArgument"
               ELSE "none"
    IN [op |-> "sudo", words |-> words, ctxChannel |-> ctxChannel,
        conv |-> raw, err |-> err,
        dispatched |-> IF err = "none"
                       THEN <<Message(user, channel, PrefixedContent(rest))>>
                       ELSE <<>>]

SudoWords == SeqsOfLen(WordTokens, 2) \cup SeqsOfLen(WordTokens, 3)

Sudo(ctxChannel, words) ==
    /\ last' = sudo_command(ctxChannel, words)
    /\ UNCHANGED <<hasTable, prefixes, tasks, dbErrors>>

----------------------------------------------------------------------------
(* Meta.execute: how the output of a run is delivered *)

MessageLimit == 2000
FenceOpenLen == 6
FenceCloseLen == 4
MaxOutLen == 2011

\* lengths of the printed output and of the returned value, message or
\* traceback
Lens == {0, 1, 2, MessageLimit - 11, MessageLimit - 10, MessageLimit - 9,
         MessageLimit, MaxOutLen}

Inline(n) == [kind |-> "inline", len |-> n]
File(n) == [kind |-> "file", len |-> n]
NothingSent == [kind |-> "none", len |-> 0]

Fenced(n) == FenceOpenLen + n + FenceCloseLen

\* kind: what the code does; lv: characters printed; lr: characters of the
\* error message, the traceback or the returned value
execute(kind, lv, lr) ==
    IF kind = "compile_error" THEN Inline(Fenced(lr))
    ELSE IF kind = "raises" THEN Inline(Fenced(lv + lr))
    ELSE IF kind = "returns_none"
         THEN IF lv > 0 THEN Inline(Fenced(lv)) ELSE NothingSent
    ELSE IF Fenced(lv + lr) > MessageLimit THEN File(lv + lr)
    ELSE Inline(Fenced(lv + lr))

RunKinds == {"compile_error", "raises", "returns_none", "returns_value"}

Execute(kind, lv, lr) ==
    /\ kind = "compile_error" => lv = 0
    /\ kind \in {"compile_error", "raises"} => lr > 0
    /\ kind = "returns_none" => lr = 0
    /\ last' = [op |-> "execute", kind |-> kind, printed |-> lv, returned |-> lr,
                reacted |-> (kind \in {"returns_none", "returns_value"}),
                sent |-> execute(kind, lv, lr)]
    /\ UNCHANGED <<hasTable, prefixes, tasks, dbErrors>>

----------------------------------------------------------------------------
(* Handlers running concurrently for one guild: the loop suspends a handler *)
(* at each awaited store statement.                                        *)

\* the guild whose handlers run concurrently
ConcGuild == CHOOSE g \in Guilds : TRUE

IdleTasks == [t \in Tasks |-> [pc |-> "idle", op |-> "none", arg |-> NoValue,
                               ran |-> FALSE]]

\* set_prefix_command holds one store statement: once the prefix is converted
\* the handler is a single step
ConcSet(t, tok) ==
    LET out == set_prefix_command(prefixes, ConcGuild, tok) IN
    /\ tasks[t].pc = "idle"
    /\ CheckOutcome(hasTable) = "none"
    /\ prefixes' = out.rows
    /\ tasks' = [tasks EXCEPT ![t] = [pc |-> "done", op |-> "set", arg |-> tok,
                                      ran |-> (out.err = "none")]]
    /\ UNCHANGED <<hasTable, last, dbErrors>>

\* reset_prefix_command up to and including its DELETE (line 264)
ConcResetDelete(t) ==
    /\ tasks[t].pc = "idle"
    /\ CheckOutcome(hasTable) = "none"
    /\ prefixes' = Delete(prefixes, ConcGuild)
    /\ tasks' = [tasks EXCEPT ![t] = [pc |-> "deleted", op |-> "reset",
                                      arg |-> NoValue, ran |-> TRUE]]
    /\ UNCHANGED <<hasTable, last, dbErrors>>

\* reset_prefix_command from its INSERT (line 265) on
ConcResetInsert(t) ==
    LET ins == InsertDefault(prefixes, ConcGuild) IN
    /\ tasks[t].pc = "deleted"
    /\ prefixes' = ins.value
    /\ dbErrors' = IF ins.kind = "ok" THEN dbErrors
                   ELSE dbErrors \cup {[task |-> t, kind |-> ins.kind]}
    /\ tasks' = [tasks EXCEPT ![t].pc = "done"]
    /\ UNCHANGED <<hasTable, last>>

----------------------------------------------------------------------------

Init ==
    /\ hasTable \in BOOLEAN
    /\ prefixes = {}
    /\ last = NoCommand
    /\ tasks = IdleTasks
    /\ dbErrors = {}

Next ==
    \/ \E g \in Guilds, auth \in BOOLEAN : PrefixGet(g, auth)
    \/ \E g \in Guilds, auth \in BOOLEAN, tok \in Tokens : PrefixSet(g, auth, tok)
    \/ \E g \in Guilds, auth \in BOOLEAN : PrefixReset(g, auth)

Spec == Init /\ [][Next]_vars

\* the sudo command alone
NextSudo == \E c \in Channels, words \in SudoWords : Sudo(c, words)

SpecSudo == Init /\ [][NextSudo]_vars

\* the execute command alone
NextExecute == \E kind \in RunKinds, lv \in Lens, lr \in Lens : Execute(kind, lv, lr)

SpecExecute == Init /\ [][NextExecute]_vars

InitConc ==
    /\ hasTable = TRUE
    /\ prefixes \in {{}, {Row(ConcGuild, DefaultPrefix)}}
    /\ last = NoCommand
    /\ tasks = IdleTasks
    /\ dbErrors = {}

NextConc ==
    \/ \E t \in Tasks, tok \in Tokens : ConcSet(t, tok)
    \/ \E t \in Tasks : ConcResetDelete(t)
    \/ \E t \in Tasks : ConcResetInsert(t)

SpecConc == InitConc /\ [][NextConc]_vars

----------------------------------------------------------------------------
(* What the specification states, in the model's terms *)

PrefixOps == {"get", "set", "reset"}

\* a prefix as the specification defines it: 1 to 4 characters, none of them
\* whitespace
SpecValid(tok) == Len(tok) \in 1..4 /\ NonWs(tok)

\* the channel a token denotes: direct resolution first, then the ID in the
\* global cache; "None" when neither resolves
IntendedChannel(tok) ==
    LET direct == TextChannelConverter_convert(<<"ctx", tok>>) IN
    IF direct.kind = "ok" THEN direct.value
    ELSE IF IsInt(tok) THEN get_channel(IntOf(tok))
    ELSE "None"

\* C1: a prefix set p in guild g, with p a valid prefix, followed directly by
\* a prefix get in g reports exactly p.
SetThenGetReportsPrefix ==
    [][(/\ last.op = "set"
        /\ hasTable
        /\ last.auth
        /\ SpecValid(last.arg)
        /\ last'.op = "get"
        /\ last'.guild = last.guild
        /\ last'.auth)
       => last'.reported = Reported("text", last.arg)]_vars

\* C2: a completed prefix reset in guild g followed directly by a prefix get
\* in g reports the deployment's default prefix.
ResetThenGetReportsDefault ==
    [][(/\ last.op = "reset"
        /\ last.err = "none"
        /\ last'.op = "get"
        /\ last'.guild = last.guild
        /\ last'.auth)
       => last'.reported = Reported("text", DefaultPrefix)]_vars

ConverterAcceptsExactlyValid ==
    (last.op = "set" /\ last.passedChecks)
        => last.conv = IF SpecValid(last.arg) THEN Ok(last.arg)
                       ELSE [kind |-> "ConversionFailed", value |-> last.arg]

\* C5: with no prefixes table, every prefix command is stopped before its
\* body, leaves the table alone, ends in the custom-prefixes-unsupported
\* condition and is answered with the cannot-use-custom-prefixes notice.
NoTableEndsUnsupported ==
    (last.op \in PrefixOps /\ ~hasTable /\ last.auth)
        => /\ ~last.passedChecks
           /\ prefixes = last.before
           /\ last.err = "NoCustomPrefixesAllowed"
           /\ last.notice = "cannot use custom prefixes"

\* C6: a prefix command that ends in a conversion failure or in a capability
\* failure leaves the prefixes table exactly as it was before the command.
FailuresLeaveTableUntouched ==
    (/\ last.op \in PrefixOps
     /\ last.err \in {"ConversionError", "ConversionFailed", "CheckFailure",
                      "NoCustomPrefixesAllowed"})
        => prefixes = last.before

\* C6 witness: a prefix set ended in a conversion failure while the table
\* held a record.
ConversionFailedOnNonEmptyTable ==
    /\ last.op = "set"
    /\ last.err = "ConversionError"
    /\ last.before # {}

\* C7: sudo with channel C, user U and text T dispatches exactly one message
\* with author U, channel C and content prefix + T; with no channel given the
\* channel is the invoking channel.
SudoDispatchesAsUserInChannel ==
    last.op = "sudo" =>
        LET w == last.words IN
        /\ (/\ Len(w) = 3
            /\ IntendedChannel(w[1]) # "None"
            /\ UserOf(w[2]) # "None")
               => last.dispatched =
                      <<Message(UserOf(w[2]), IntendedChannel(w[1]),
                                PrefixedContent(SubSeq(w, 3, 3)))>>
        /\ (/\ IntendedChannel(w[1]) = "None"
            /\ UserOf(w[1]) # "None")
               => last.dispatched =
                      <<Message(UserOf(w[1]), last.ctxChannel,
                                PrefixedContent(SubSeq(w, 2, Len(w))))>>

\* C8: the channel converter returns the channel a token denotes (resolved
\* directly, or by its ID in the global cache) and fails with a conversion
\* failure when the token denotes none; it never returns None.
ChannelConverterResolves ==
    last.op = "sudo" =>
        LET tok == last.words[1] IN
        last.conv = IF IntendedChannel(tok) # "None" THEN Ok(IntendedChannel(tok))
                    ELSE [kind |-> "ConversionFailed", value |-> tok]

\* C9: no inline message sent by the execute command is longer than 2000
\* characters: longer output is delivered as a file.
LongOutputGoesToFile ==
    (last.op = "execute" /\ last.sent.kind = "inline")
        => last.sent.len <= MessageLimit

\* C10: under every interleaving of set and reset handlers for one guild no
\* store statement fails, the guild never has more than one record, and once
\* all handlers have finished, and one of them ran, the guild has exactly one
\* record holding the default or one of the set prefixes.
ConcurrentWritersSafe ==
    LET mine == {r \in prefixes : r.server_id = ConcGuild} IN
    /\ dbErrors = {}
    /\ Cardinality(mine) <= 1
    /\ ((\A t \in Tasks : tasks[t].pc = "done") /\ (\E t \in Tasks : tasks[t].ran))
          => /\ Cardinality(mine) = 1
             /\ \A r \in mine :
                   r.prefix \in {DefaultPrefix}
                       \cup {tasks[t].arg : t \in {u \in Tasks : tasks[u].op = "set"}}

====
